---- MODULE Spec2Model ----
(***************************************************************************)
(* A model of the Texas Hold'em table engine of src/engine.py: one room    *)
(* (one PokerGame), the socket handlers that drive it, and the background  *)
(* task that end_hand starts to deal the next hand.                        *)
(*                                                                         *)
(* Every engine method is an operator from a table record g to the table   *)
(* record it leaves behind, written in the order of the method's           *)
(* statements; every socket handler and every wake-up of the background    *)
(* task is one action.  Python indexes from 0 and TLA+ sequences from 1:   *)
(* seat i of the code is player_order[i + 1] here.                         *)
(*                                                                         *)
(* Left out: a player's 'name' and 'id' (the id is the key of players),    *)
(* 'time_remaining' (only ever assigned action_timer), auto_deal (always   *)
(* True), the seed and its hash (the deck order stands for the seed).      *)
(***************************************************************************)
EXTENDS Integers, Sequences, FiniteSets, TLC

\* ------------------------------------------------------------------ bounds
\* The connections (request.sid) of the model, in the order they join the
\* room; the first created it.
SidOrder == <<"a", "b", "c">>

Sids == {SidOrder[i] : i \in 1..Len(SidOrder)}

Creator == SidOrder[1]

\* Blind sizes of the room (create_room's small_blind / big_blind).
SmallBlind == 500

BigBlind == 1000

\* Starting stack of add_player.
StartChips == 1000

\* raise_amount values a client sends (any integer in the code).
RaiseAmounts == {0 - SmallBlind, 0, SmallBlind}

\* Successful start_hand calls explored at a table that seats every
\* connection, and at a table of two seats (heads-up).
MaxHands == 1

HeadsUpHands == 2

\* Accepted raises explored.
MaxRaises == 1

\* Disconnects explored.
MaxLeaves == 1

\* Auto-deal tasks pending at once explored.
MaxTasks == 2

NumSuits == 4

NumRanks == 13

\* ----------------------------------------------------------------- helpers
Min(x, y) == IF x < y THEN x ELSE y

Range(s) == {s[i] : i \in 1..Len(s)}

RECURSIVE SumOver(_, _)
SumOver(f, S) ==
  IF S = {} THEN 0
  ELSE LET x == CHOOSE y \in S : TRUE IN f[x] + SumOver(f, S \ {x})

\* ---------------------------------------------------------- ProvablyFairDeck
\* A card is a number: suit = card \div NumRanks, rank = card % NumRanks.
create_deck == [i \in 1..(NumSuits * NumRanks) |-> i - 1]

\* random.randint(0, i) of the generator seeded with seed, at the draw for
\* index i: some value of 0..i fixed by the seed.
RandInt(seed, i) == (seed * (i + 3) + seed * seed) % (i + 1)

RECURSIVE FisherYates(_, _, _)
FisherYates(d, seed, i) ==
  IF i < 1 THEN d
  ELSE LET j == RandInt(seed, i)
       IN FisherYates([d EXCEPT ![i + 1] = d[j + 1], ![j + 1] = d[i + 1]],
                      seed, i - 1)

shuffle(seed) == FisherYates(create_deck, seed, Len(create_deck) - 1)

\* generate_seed draws a fresh seed for every hand: hand number h gets seed h.
ShuffledDecks == [s \in 1..(MaxHands + HeadsUpHands + 1) |-> shuffle(s)]

\* A variant that hands out the top cards and leaves them in the deck; C18
\* must tell it from get_cards.
get_cards_keeping_deck(g, num) ==
  IF Len(g.deck) < num THEN [cards |-> <<>>, g |-> g]
  ELSE [cards |-> SubSeq(g.deck, 1, num), g |-> g]

\* get_cards on table g: the cards dealt and the table with the deck cut.
get_cards(g, num) ==
  IF Len(g.deck) < num THEN [cards |-> <<>>, g |-> g]
  ELSE [cards |-> SubSeq(g.deck, 1, num),
        g |-> [g EXCEPT !.deck = SubSeq(g.deck, num + 1, Len(g.deck))]]

\* ---------------------------------------------------------------- PokerGame
NewPlayer ==
  [chips |-> StartChips, bet |-> 0, hand |-> <<>>,
   folded |-> FALSE, all_in |-> FALSE]

NewGame ==
  [players |-> << >>, player_order |-> << >>, deck |-> << >>,
   community_cards |-> << >>, pot |-> 0, current_bet |-> 0,
   state |-> "waiting", hand_state |-> "none", dealer_position |-> 0,
   current_player_index |-> 0, last_raiser_index |-> << >>,
   players_acted |-> {}, spawned |-> 0, fault |-> FALSE]

\* players and player_order are filled and emptied together, so the dict's
\* iteration order is the seating order.
add_player(g, pid) ==
  IF pid \notin DOMAIN g.players
  THEN [g EXCEPT !.players = [p \in (DOMAIN g.players) \cup {pid} |->
                                IF p = pid THEN NewPlayer ELSE g.players[p]],
                 !.player_order = Append(@, pid)]
  ELSE g

remove_player(g, pid) ==
  IF pid \in DOMAIN g.players
  THEN [g EXCEPT !.players = [p \in (DOMAIN g.players) \ {pid} |-> g.players[p]],
                 !.player_order = SelectSeq(@, LAMBDA p : p # pid)]
  ELSE g

get_active_players(g) ==
  SelectSeq(g.player_order, LAMBDA p : ~g.players[p].folded)

get_players_can_act(g) ==
  SelectSeq(g.player_order,
            LAMBDA p : ~g.players[p].folded /\ ~g.players[p].all_in)

\* A variant that seats the blinds one place early (the dealer posts the
\* small blind); C11 must tell it from post_blinds.
post_blinds_from_dealer(g) ==
  IF Len(g.player_order) < 2 THEN g
  ELSE
    LET n == Len(g.player_order)
        sb_index == g.dealer_position % n
        sb == g.player_order[sb_index + 1]
        bb_index == (g.dealer_position + 1) % n
        bb == g.player_order[bb_index + 1]
        sb_amount == Min(SmallBlind, g.players[sb].chips)
        bb_amount == Min(BigBlind, g.players[bb].chips)
    IN [g EXCEPT !.players[sb].chips = @ - sb_amount,
                 !.players[sb].bet = sb_amount,
                 !.players[bb].chips = @ - bb_amount,
                 !.players[bb].bet = bb_amount,
                 !.pot = @ + sb_amount + bb_amount,
                 !.current_bet = BigBlind,
                 !.current_player_index = (bb_index + 1) % n,
                 !.last_raiser_index = <<bb_index>>,
                 !.players_acted = @ \cup {sb, bb}]

post_blinds(g) ==
  IF Len(g.player_order) < 2 THEN g
  ELSE
    LET n == Len(g.player_order)
        sb_index == (g.dealer_position + 1) % n
        sb == g.player_order[sb_index + 1]
        bb_index == (g.dealer_position + 2) % n
        bb == g.player_order[bb_index + 1]
        sb_amount == Min(SmallBlind, g.players[sb].chips)
        g1 == [g EXCEPT !.players[sb].chips = @ - sb_amount,
                        !.players[sb].bet = sb_amount,
                        !.pot = @ + sb_amount]
        bb_amount == Min(BigBlind, g1.players[bb].chips)
        g2 == [g1 EXCEPT !.players[bb].chips = @ - bb_amount,
                         !.players[bb].bet = bb_amount,
                         !.pot = @ + bb_amount]
    IN [g2 EXCEPT !.current_bet = BigBlind,
                  !.current_player_index = (bb_index + 1) % n,
                  !.last_raiser_index = <<bb_index>>,
                  !.players_acted = @ \cup {sb, bb}]

RECURSIVE deal_hole_cards(_, _)
deal_hole_cards(g, i) ==
  IF i > Len(g.player_order) THEN g
  ELSE LET r == get_cards(g, 2)
       IN deal_hole_cards(
            [r.g EXCEPT !.players[g.player_order[i]].hand = r.cards], i + 1)

\* A variant that starts the hand whatever the table state is; C15 must
\* tell it from start_hand.
start_hand_any_state(g, seed) ==
  IF Len(g.player_order) < 2 THEN [ok |-> FALSE, g |-> g]
  ELSE
    LET g1 == [g EXCEPT !.deck = ShuffledDecks[seed],
                        !.community_cards = << >>,
                        !.pot = 0,
                        !.current_bet = 0,
                        !.hand_state = "preflop",
                        !.players_acted = {}]
        g2 == [g1 EXCEPT !.players =
                 [p \in DOMAIN g1.players |->
                    [g1.players[p] EXCEPT !.bet = 0, !.folded = FALSE,
                                          !.all_in = FALSE, !.hand = << >>]]]
    IN [ok |-> TRUE, g |-> post_blinds(deal_hole_cards(g2, 1))]

\* start_hand with the seed generate_seed drew: ok is the return value.
start_hand(g, seed) ==
  IF Len(g.player_order) < 2 THEN [ok |-> FALSE, g |-> g]
  ELSE IF g.state # "playing" THEN [ok |-> FALSE, g |-> g]
  ELSE
    LET g1 == [g EXCEPT !.deck = ShuffledDecks[seed],
                        !.community_cards = << >>,
                        !.pot = 0,
                        !.current_bet = 0,
                        !.hand_state = "preflop",
                        !.players_acted = {}]
        g2 == [g1 EXCEPT !.players =
                 [p \in DOMAIN g1.players |->
                    [g1.players[p] EXCEPT !.bet = 0, !.folded = FALSE,
                                          !.all_in = FALSE, !.hand = << >>]]]
        g3 == deal_hole_cards(g2, 1)
    IN [ok |-> TRUE, g |-> post_blinds(g3)]

\* get_current_player raises IndexError when the seat index is past the end
\* of player_order.
current_player_faults(g) ==
  /\ g.player_order # << >>
  /\ g.hand_state \notin {"none", "showdown"}
  /\ g.current_player_index >= Len(g.player_order)

\* A variant that names the player on the current seat in every phase,
\* showdown and none too; C19 must tell it from get_current_player.
get_current_player_any_phase(g) ==
  IF g.player_order = << >> THEN << >>
  ELSE <<g.player_order[(g.current_player_index % Len(g.player_order)) + 1]>>

\* get_current_player where it does not raise: << >> is None, <<pid>> a player.
get_current_player(g) ==
  IF g.player_order = << >> \/ g.hand_state = "none" \/ g.hand_state = "showdown"
  THEN << >>
  ELSE <<g.player_order[g.current_player_index + 1]>>

RECURSIVE check_loop(_, _, _)
check_loop(g, can_act_players, i) ==
  IF i > Len(can_act_players) THEN TRUE
  ELSE IF can_act_players[i] \notin g.players_acted THEN FALSE
  ELSE IF g.players[can_act_players[i]].bet # g.current_bet THEN FALSE
  ELSE check_loop(g, can_act_players, i + 1)

\* A variant that compares the bets and ignores the acted-set; C2 must tell
\* it from check_betting_complete.
check_betting_complete_bets_only(g) ==
  \/ Len(get_active_players(g)) <= 1
  \/ \A i \in 1..Len(get_players_can_act(g)) :
       g.players[get_players_can_act(g)[i]].bet = g.current_bet

check_betting_complete(g) ==
  LET active_players == get_active_players(g)
      can_act_players == get_players_can_act(g)
  IN IF Len(active_players) <= 1 THEN TRUE
     ELSE IF Len(can_act_players) = 0 THEN TRUE
     ELSE check_loop(g, can_act_players, 1)

RECURSIVE first_to_act_loop(_, _)
first_to_act_loop(g, attempts) ==
  IF attempts < Len(g.player_order)
  THEN LET player == g.players[g.player_order[g.current_player_index + 1]]
       IN IF ~player.folded /\ ~player.all_in THEN g
          ELSE first_to_act_loop(
                 [g EXCEPT !.current_player_index =
                             (@ + 1) % Len(g.player_order)],
                 attempts + 1)
  ELSE g

set_first_to_act(g) ==
  first_to_act_loop(
    [g EXCEPT !.current_player_index =
                (g.dealer_position + 1) % Len(g.player_order)], 0)

deal_flop(g) ==
  LET r == get_cards(g, 3)
  IN set_first_to_act([r.g EXCEPT !.community_cards = r.cards,
                                  !.hand_state = "flop"])

deal_turn(g) ==
  LET r == get_cards(g, 1)
  IN set_first_to_act([r.g EXCEPT !.community_cards = @ \o r.cards,
                                  !.hand_state = "turn"])

deal_river(g) ==
  LET r == get_cards(g, 1)
  IN set_first_to_act([r.g EXCEPT !.community_cards = @ \o r.cards,
                                  !.hand_state = "river"])

\* A variant that names every seated player a winner, folded or not; C14
\* must tell it from determine_winner.
determine_winner_everyone(g) == g.player_order

determine_winner(g) == get_active_players(g)

\* end_hand.  With no non-folded player left, pot // len(winners) raises
\* ZeroDivisionError after hand_state was set: fault marks the table left
\* behind by an exception.  spawned counts start_background_task calls.
end_hand(g) ==
  LET g1 == [g EXCEPT !.hand_state = "showdown"]
      winners == determine_winner(g1)
  IN IF Len(winners) = 0 THEN [g1 EXCEPT !.fault = TRUE]
     ELSE
       LET g2 == IF Len(winners) = 1
                 THEN [g1 EXCEPT !.players[winners[1]].chips = @ + g1.pot]
                 ELSE LET split_amount == g1.pot \div Len(winners)
                      IN [g1 EXCEPT !.players =
                            [p \in DOMAIN g1.players |->
                               IF p \in Range(winners)
                               THEN [g1.players[p] EXCEPT
                                       !.chips = @ + split_amount]
                               ELSE g1.players[p]]]
           g3 == [g2 EXCEPT !.dealer_position =
                              (@ + 1) % Len(g2.player_order)]
       IN IF g3.state = "playing" THEN [g3 EXCEPT !.spawned = @ + 1] ELSE g3

next_betting_round(g) ==
  LET g1 == [g EXCEPT !.players =
               [p \in DOMAIN g.players |-> [g.players[p] EXCEPT !.bet = 0]],
                      !.current_bet = 0,
                      !.last_raiser_index = << >>,
                      !.players_acted = {}]
  IN IF g1.hand_state = "preflop" THEN deal_flop(g1)
     ELSE IF g1.hand_state = "flop" THEN deal_turn(g1)
     ELSE IF g1.hand_state = "turn" THEN deal_river(g1)
     ELSE IF g1.hand_state = "river" THEN end_hand(g1)
     ELSE g1

RECURSIVE advance_loop(_, _)
advance_loop(g, attempts) ==
  IF attempts < Len(g.player_order)
  THEN LET g1 == [g EXCEPT !.current_player_index =
                             (@ + 1) % Len(g.player_order)]
           current_player == g1.players[g1.player_order[g1.current_player_index + 1]]
       IN IF ~current_player.folded /\ ~current_player.all_in THEN g1
          ELSE advance_loop(g1, attempts + 1)
  ELSE next_betting_round(g)

\* A variant that looks at the betting round before it counts the players
\* left, and so deals on for a lone player; C13 must tell it from
\* advance_action.
advance_action_round_first(g) ==
  IF check_betting_complete(g) THEN next_betting_round(g)
  ELSE IF Len(get_active_players(g)) <= 1 THEN end_hand(g)
  ELSE advance_loop(g, 0)

advance_action(g) ==
  IF Len(get_active_players(g)) <= 1 THEN end_hand(g)
  ELSE IF check_betting_complete(g) THEN next_betting_round(g)
  ELSE advance_loop(g, 0)

\* The four actions, each split where the method calls advance_action: the
\* *_pay operator is the method up to that call.  ok is the return value.
fold_pay(g, pid) ==
  [g EXCEPT !.players[pid].folded = TRUE,
            !.players_acted = @ \cup {pid}]

player_fold(g, pid) ==
  IF pid \in DOMAIN g.players
  THEN [ok |-> TRUE, g |-> advance_action(fold_pay(g, pid))]
  ELSE [ok |-> FALSE, g |-> g]

\* A variant that pays the whole difference whatever the stack holds; C10
\* must tell it from call_pay.
call_pay_uncapped(g, pid) ==
  LET call_amount == g.current_bet - g.players[pid].bet
  IN [g EXCEPT !.players[pid].chips = @ - call_amount,
               !.players[pid].bet = @ + call_amount,
               !.pot = @ + call_amount,
               !.players_acted = @ \cup {pid}]

call_pay(g, pid) ==
  LET player == g.players[pid]
      call_amount == g.current_bet - player.bet
      g1 == IF call_amount > player.chips
            THEN [g EXCEPT !.pot = @ + player.chips,
                           !.players[pid].bet = @ + player.chips,
                           !.players[pid].chips = 0,
                           !.players[pid].all_in = TRUE]
            ELSE [g EXCEPT !.players[pid].chips = @ - call_amount,
                           !.players[pid].bet = @ + call_amount,
                           !.pot = @ + call_amount]
  IN [g1 EXCEPT !.players_acted = @ \cup {pid}]

player_call(g, pid) ==
  IF pid \notin DOMAIN g.players THEN [ok |-> FALSE, g |-> g]
  ELSE [ok |-> TRUE, g |-> advance_action(call_pay(g, pid))]

raise_accepted(g, pid, raise_amount) ==
  /\ pid \in DOMAIN g.players
  /\ ~((g.current_bet + raise_amount) - g.players[pid].bet > g.players[pid].chips)

\* A variant that adds the raiser to the acted-set instead of resetting it;
\* C9 must tell it from raise_pay.
raise_pay_keeping_acted(g, pid, raise_amount) ==
  LET total_bet == g.current_bet + raise_amount
      amount_to_add == total_bet - g.players[pid].bet
  IN [g EXCEPT !.players[pid].chips = @ - amount_to_add,
               !.players[pid].bet = total_bet,
               !.pot = @ + amount_to_add,
               !.current_bet = total_bet,
               !.players_acted = @ \cup {pid}]

raise_pay(g, pid, raise_amount) ==
  LET total_bet == g.current_bet + raise_amount
      amount_to_add == total_bet - g.players[pid].bet
  IN [g EXCEPT !.players[pid].chips = @ - amount_to_add,
               !.players[pid].bet = total_bet,
               !.pot = @ + amount_to_add,
               !.current_bet = total_bet,
               !.players_acted = {pid}]

player_raise(g, pid, raise_amount) ==
  IF pid \notin DOMAIN g.players THEN [ok |-> FALSE, g |-> g]
  ELSE IF ~raise_accepted(g, pid, raise_amount) THEN [ok |-> FALSE, g |-> g]
  ELSE [ok |-> TRUE, g |-> advance_action(raise_pay(g, pid, raise_amount))]

check_accepted(g, pid) ==
  /\ pid \in DOMAIN g.players
  /\ ~(g.players[pid].bet # g.current_bet)

check_pay(g, pid) == [g EXCEPT !.players_acted = @ \cup {pid}]

\* A variant that records the player as having acted before it compares the
\* bets; C5 must tell it from player_check.
player_check_recording_first(g, pid) ==
  IF pid \notin DOMAIN g.players THEN [ok |-> FALSE, g |-> g]
  ELSE IF ~check_accepted(g, pid)
  THEN [ok |-> FALSE, g |-> check_pay(g, pid)]
  ELSE [ok |-> TRUE, g |-> advance_action(check_pay(g, pid))]

player_check(g, pid) ==
  IF pid \notin DOMAIN g.players THEN [ok |-> FALSE, g |-> g]
  ELSE IF ~check_accepted(g, pid) THEN [ok |-> FALSE, g |-> g]
  ELSE [ok |-> TRUE, g |-> advance_action(check_pay(g, pid))]

\* ---------------------------------------------------------- socket handlers
\* Each handler is an operator from the table and the request to the table
\* it leaves and what it emits: "game_state" (the broadcast to the room),
\* "error: ..." (to the requester alone), "none", or "fault" when the
\* handler ends in an exception (the table is as the exception left it).
BettingPhases == {"preflop", "flop", "turn", "river"}

\* emit('game_state', game.get_state(), room=...): get_state raises where
\* get_current_player does.
emit_game_state(g) ==
  IF g.fault \/ current_player_faults(g) THEN "fault" ELSE "game_state"

join_game(g, sid) ==
  LET g1 == add_player(g, sid)
  IN [g |-> g1, reply |-> emit_game_state(g1)]

disconnect(g, sid) ==
  IF sid \in DOMAIN g.players
  THEN LET g1 == remove_player(g, sid)
       IN [g |-> g1, reply |-> emit_game_state(g1)]
  ELSE [g |-> g, reply |-> "none"]

start_game(g, sid, creator_id, seed) ==
  IF sid # creator_id
  THEN [g |-> g, reply |-> "error: Only room creator can start the game",
        started |-> FALSE]
  ELSE LET r == start_hand([g EXCEPT !.state = "playing"], seed)
       IN [g |-> r.g,
           reply |-> IF r.ok THEN emit_game_state(r.g) ELSE "none",
           started |-> r.ok]

pause_game(g, sid, creator_id) ==
  IF sid # creator_id
  THEN [g |-> g, reply |-> "error: Only room creator can pause the game"]
  ELSE LET g1 == [g EXCEPT !.state = "paused"]
       IN [g |-> g1, reply |-> emit_game_state(g1)]

\* mid is the table at the moment the engine method calls advance_action
\* (the table itself when it never does).
player_action(g, sid, action, raise_amount) ==
  IF current_player_faults(g)
  THEN [g |-> g, reply |-> "fault", ok |-> FALSE, mid |-> g]
  ELSE IF get_current_player(g) # <<sid>>
  THEN [g |-> g, reply |-> "error: Not your turn", ok |-> FALSE, mid |-> g]
  ELSE
    LET r == CASE action = "fold" -> player_fold(g, sid)
               [] action = "call" -> player_call(g, sid)
               [] action = "check" -> player_check(g, sid)
               [] action = "raise" -> player_raise(g, sid, raise_amount)
        mid == CASE action = "fold" -> fold_pay(g, sid)
                 [] action = "call" -> call_pay(g, sid)
                 [] action = "check" -> check_pay(g, sid)
                 [] action = "raise" -> raise_pay(g, sid, raise_amount)
    IN IF ~r.ok /\ action = "check"
       THEN [g |-> g, reply |-> "error: Cannot check", ok |-> FALSE, mid |-> g]
       ELSE IF ~r.ok /\ action = "raise"
       THEN [g |-> g, reply |-> "error: Invalid raise", ok |-> FALSE, mid |-> g]
       ELSE [g |-> r.g, reply |-> emit_game_state(r.g), ok |-> TRUE,
             mid |-> mid]

\* -------------------------------------------------------------------- state
VARIABLES
  players, player_order, deck, community_cards, pot, current_bet, state,
  hand_state, dealer_position, current_player_index, last_raiser_index,
  players_acted,   \* the PokerGame of the room
  tasks,           \* schedule_next_hand tasks: how many sleep at each of its two sleeps
  gone,            \* connections that have disconnected (a sid is never reused)
  seat_cap,        \* seats explored at this table (the code sets no limit)
  hands,           \* successful start_hand calls so far
  raises,          \* accepted raises so far
  paid_in,         \* history: chips taken out of stacks since the hand began
  awarded,         \* history: chips end_hand has added to stacks since the hand began
  since_raise      \* history: the last raiser of this betting round and who acted since

gameVars ==
  <<players, player_order, deck, community_cards, pot, current_bet, state,
    hand_state, dealer_position, current_player_index, last_raiser_index,
    players_acted>>

vars == <<gameVars, tasks, gone, seat_cap, hands, raises, paid_in, awarded, since_raise>>

\* The table as the record the engine operators work on.
Game ==
  [players |-> players, player_order |-> player_order, deck |-> deck,
   community_cards |-> community_cards, pot |-> pot,
   current_bet |-> current_bet, state |-> state, hand_state |-> hand_state,
   dealer_position |-> dealer_position,
   current_player_index |-> current_player_index,
   last_raiser_index |-> last_raiser_index, players_acted |-> players_acted,
   spawned |-> 0, fault |-> FALSE]

PendingIn(t) == t.sleep5 + t.sleep2

\* The table becomes g; the tasks g started begin their first sleep, beside
\* the tasks t that were already sleeping.
Becomes(g, t) ==
  /\ PendingIn(t) + g.spawned <= MaxTasks
  /\ players' = g.players
  /\ player_order' = g.player_order
  /\ deck' = g.deck
  /\ community_cards' = g.community_cards
  /\ pot' = g.pot
  /\ current_bet' = g.current_bet
  /\ state' = g.state
  /\ hand_state' = g.hand_state
  /\ dealer_position' = g.dealer_position
  /\ current_player_index' = g.current_player_index
  /\ last_raiser_index' = g.last_raiser_index
  /\ players_acted' = g.players_acted
  /\ tasks' = [t EXCEPT !.sleep5 = @ + g.spawned]

ChipSum(g) == SumOver([p \in DOMAIN g.players |-> g.players[p].chips],
                      DOMAIN g.players)

NoRaise == [raiser |-> << >>, acted |-> {}]

\* The room exists with its creator seated (handle_create_room).
Init ==
  /\ players = add_player(NewGame, Creator).players
  /\ player_order = add_player(NewGame, Creator).player_order
  /\ deck = NewGame.deck
  /\ community_cards = NewGame.community_cards
  /\ pot = NewGame.pot
  /\ current_bet = NewGame.current_bet
  /\ state = NewGame.state
  /\ hand_state = NewGame.hand_state
  /\ dealer_position = NewGame.dealer_position
  /\ current_player_index = NewGame.current_player_index
  /\ last_raiser_index = NewGame.last_raiser_index
  /\ players_acted = NewGame.players_acted
  /\ tasks = [sleep5 |-> 0, sleep2 |-> 0]
  /\ gone = {}
  /\ seat_cap \in {2, Len(SidOrder)}
  /\ hands = 0
  /\ raises = 0
  /\ paid_in = 0
  /\ awarded = 0
  /\ since_raise = NoRaise

\* The histories of a step in which start_hand succeeded (before: the table
\* it was called on) or did not run.
HandHistory(started, before, after) ==
  IF started
  THEN /\ hands < (IF seat_cap = 2 THEN HeadsUpHands ELSE MaxHands)
       /\ hands' = hands + 1
       /\ UNCHANGED raises
       /\ paid_in' = ChipSum(before) - ChipSum(after)
       /\ awarded' = 0
       /\ since_raise' = NoRaise
  ELSE UNCHANGED <<hands, raises, paid_in, awarded, since_raise>>

\* A sid is an opaque token, fresh for every connection: the connections are
\* named in the order they join.
NextToJoin ==
  LET fresh == {i \in 1..Len(SidOrder) :
                  SidOrder[i] \notin gone /\ SidOrder[i] \notin DOMAIN players}
  IN IF fresh = {} THEN "nobody"
     ELSE SidOrder[CHOOSE i \in fresh : \A j \in fresh : i <= j]

\* handle_join_game (handle_create_room for the existing room does the same).
handle_join_game(sid) ==
  /\ sid \notin gone
  /\ \/ sid \in DOMAIN players
     \/ sid = NextToJoin /\ Len(player_order) < seat_cap
  /\ Becomes(join_game(Game, sid).g, tasks)
  /\ UNCHANGED <<gone, seat_cap, hands, raises, paid_in, awarded, since_raise>>

handle_disconnect(sid) ==
  /\ sid \notin gone
  /\ Cardinality(gone) < MaxLeaves
  /\ gone' = gone \cup {sid}
  /\ Becomes(disconnect(Game, sid).g, tasks)
  /\ UNCHANGED <<seat_cap, hands, raises, paid_in, awarded, since_raise>>

handle_start_game(sid) ==
  /\ sid \notin gone
  /\ LET r == start_game(Game, sid, Creator, hands + 1)
     IN /\ Becomes(r.g, tasks)
        /\ HandHistory(r.started, Game, r.g)
  /\ UNCHANGED <<gone, seat_cap>>

handle_pause_game(sid) ==
  /\ sid \notin gone
  /\ Becomes(pause_game(Game, sid, Creator).g, tasks)
  /\ UNCHANGED <<gone, seat_cap, hands, raises, paid_in, awarded, since_raise>>

handle_player_action(sid, action, raise_amount) ==
  /\ sid \notin gone
  /\ LET r == player_action(Game, sid, action, raise_amount)
     IN /\ Becomes(r.g, tasks)
        /\ (r.ok /\ action = "raise") => raises < MaxRaises
        /\ raises' = IF r.ok /\ action = "raise" THEN raises + 1 ELSE raises
        /\ paid_in' = paid_in + (ChipSum(Game) - ChipSum(r.mid))
        /\ awarded' = awarded + (ChipSum(r.g) - ChipSum(r.mid))
        /\ since_raise' =
             IF ~r.ok THEN since_raise
             ELSE IF r.g.hand_state # hand_state THEN NoRaise
             ELSE IF action = "raise" THEN [raiser |-> <<sid>>, acted |-> {}]
             ELSE IF since_raise.raiser = << >> THEN NoRaise
             ELSE [since_raise EXCEPT !.acted = @ \cup {sid}]
  /\ UNCHANGED <<gone, seat_cap, hands>>

\* schedule_next_hand, from its first sleep to its second (or to its end).
task_wake_1 ==
  /\ tasks.sleep5 > 0
  /\ IF state = "playing"
     THEN /\ Becomes([Game EXCEPT !.hand_state = "none"],
                     [tasks EXCEPT !.sleep5 = @ - 1, !.sleep2 = @ + 1])
          /\ since_raise' = NoRaise
     ELSE /\ Becomes(Game, [tasks EXCEPT !.sleep5 = @ - 1])
          /\ UNCHANGED since_raise
  /\ UNCHANGED <<gone, seat_cap, hands, raises, paid_in, awarded>>

\* schedule_next_hand, from its second sleep to its end.
task_wake_2 ==
  /\ tasks.sleep2 > 0
  /\ LET r == start_hand(Game, hands + 1)
     IN /\ Becomes(r.g, [tasks EXCEPT !.sleep2 = @ - 1])
        /\ HandHistory(r.ok, Game, r.g)
  /\ UNCHANGED <<gone, seat_cap>>

Actions == {"fold", "call", "check", "raise"}

Next ==
  \/ \E sid \in Sids : handle_join_game(sid)
  \/ \E sid \in Sids : handle_disconnect(sid)
  \/ \E sid \in Sids : handle_start_game(sid)
  \/ \E sid \in Sids : handle_pause_game(sid)
  \/ \E sid \in Sids, action \in Actions \ {"raise"} :
       handle_player_action(sid, action, 0)
  \/ \E sid \in Sids, raise_amount \in RaiseAmounts :
       handle_player_action(sid, "raise", raise_amount)
  \/ task_wake_1
  \/ task_wake_2

Spec == Init /\ [][Next]_vars

\* ------------------------------------------------------------------- claims
Seated == DOMAIN players

Betting == hand_state \in BettingPhases

NonFolded(g) == {p \in DOMAIN g.players : ~g.players[p].folded}

CanAct(g) ==
  {p \in DOMAIN g.players : ~g.players[p].folded /\ ~g.players[p].all_in}

\* The seated player whose turn it is, if any.
Actor ==
  IF Betting /\ current_player_index < Len(player_order)
  THEN {player_order[current_player_index + 1]}
  ELSE {}

\* Every request a connection can send as a player action.
Requests ==
  {<<sid, action, 0>> : sid \in Sids \ gone, action \in Actions \ {"raise"}}
    \cup {<<sid, "raise", amt>> : sid \in Sids \ gone, amt \in RaiseAmounts}

Outcome(req) == player_action(Game, req[1], req[2], req[3])

\* The tables on which advance_action (and so check_betting_complete) runs
\* next: what each accepted action makes of the current table.
MidTables == {Outcome(req).mid : req \in {r \in Requests : Outcome(r).ok}}

\* C1: after a successful start_hand, pot equals the chips taken out of the
\* stacks since the hand began minus the chips already awarded to winners.
C1_PotIsPaidInMinusAwarded == hands > 0 => pot = paid_in - awarded

\* C2: check_betting_complete is true exactly when (a) at most one player is
\* non-folded, or (b) no non-folded player can act, or (c) every player
\* neither folded nor all-in has acted and has bet exactly current_bet.
RoundComplete(g) ==
  \/ Cardinality(NonFolded(g)) <= 1
  \/ CanAct(g) = {}
  \/ \A p \in CanAct(g) :
       p \in g.players_acted /\ g.players[p].bet = g.current_bet

C2_CompleteIffRule ==
  \A g \in MidTables \cup {Game} :
    check_betting_complete(g) = RoundComplete(g)

\* C2 witness: advance_action meets a table of two or more non-folded
\* players, one all-in, where everyone who can act has acted and matched, and
\* finds the round complete.
C2_Witness ==
  \E g \in MidTables :
    /\ \E p \in NonFolded(g) : g.players[p].all_in
    /\ Cardinality(NonFolded(g)) >= 2
    /\ CanAct(g) # {}
    /\ check_betting_complete(g)

\* C3: while the hand is in a betting phase and the engine waits for the
\* next action, the player at current_player_index is neither folded nor
\* all-in.  Stated for the tables nobody has left, where the index is the
\* one the engine chose.
C3_ActorCanAct ==
  (Betting /\ gone = {}) =>
    player_order[current_player_index + 1] \in CanAct(Game)

\* C4: whatever players were removed, in a betting phase
\* current_player_index and dealer_position index player_order, and
\* get_current_player does not fault.
C4_IndexesValid ==
  Betting =>
    /\ current_player_index < Len(player_order)
    /\ dealer_position < Len(player_order)
    /\ ~current_player_faults(Game)

\* C5: a rejected operation returns false and leaves the table as it was:
\* start_hand with fewer than two players or a table not playing, check with
\* an unmatched bet, raise beyond the stack, any action of an identity that
\* is not seated.
C5_RejectedLeavesTable ==
  LET same == [ok |-> FALSE, g |-> Game]
  IN /\ (Len(player_order) < 2 \/ state # "playing")
          => start_hand(Game, hands + 1) = same
     /\ \A pid \in Seated :
          /\ players[pid].bet # current_bet => player_check(Game, pid) = same
          /\ \A amt \in RaiseAmounts :
               (current_bet + amt) - players[pid].bet > players[pid].chips
                 => player_raise(Game, pid, amt) = same
     /\ \A pid \in Sids \ Seated :
          /\ player_fold(Game, pid) = same
          /\ player_call(Game, pid) = same
          /\ player_check(Game, pid) = same
          /\ \A amt \in RaiseAmounts : player_raise(Game, pid, amt) = same

\* C5 witness: a paused table in a betting phase where the actor's check and
\* one of the actor's raises are rejected, beside a connection not seated.
C5_Witness ==
  /\ Betting
  /\ state = "paused"
  /\ Sids \ Seated # {}
  /\ \E pid \in Actor :
       /\ ~player_check(Game, pid).ok
       /\ \E amt \in RaiseAmounts : ~player_raise(Game, pid, amt).ok

\* C6: a player action sent by anyone but the current actor, or outside the
\* betting phases, is answered with an error to the requester, changes no
\* table state and is not broadcast.
C6_OutOfTurnRejected ==
  \A req \in Requests :
    (req[1] \notin Actor)
      => /\ Outcome(req).g = Game
         /\ Outcome(req).reply = "error: Not your turn"

\* C7: the phase moves only along none, preflop, flop, turn, river,
\* showdown, none (the next hand may begin from showdown as from none);
\* between betting phases only when a betting round completed; to showdown
\* only on river completion or with at most one non-folded player; a hand in
\* a betting phase is never moved back to an earlier phase.
PhaseOrder ==
  {<<"none", "preflop">>, <<"preflop", "flop">>, <<"flop", "turn">>,
   <<"turn", "river">>, <<"river", "showdown">>, <<"showdown", "none">>,
   <<"showdown", "preflop">>}
    \cup {<<ph, "showdown">> : ph \in BettingPhases}

PhaseStep ==
  /\ hand_state' # hand_state => <<hand_state, hand_state'>> \in PhaseOrder
  /\ (Betting /\ hand_state' \in BettingPhases /\ hand_state' # hand_state)
       => \E g \in MidTables : check_betting_complete(g)
  /\ (Betting /\ hand_state' = "showdown")
       => \E g \in MidTables :
            \/ Cardinality(NonFolded(g)) <= 1
            \/ hand_state = "river" /\ check_betting_complete(g)

C7_PhaseOrder == [][PhaseStep]_vars

\* C8: stacks, current-round bets, the pot and current_bet are never
\* negative, whatever raise amounts are sent.
C8_NonNegative ==
  /\ pot >= 0
  /\ current_bet >= 0
  /\ \A p \in Seated : players[p].chips >= 0 /\ players[p].bet >= 0

\* C9: when player B's raise is accepted, current_bet is the new total and
\* the acted-set is {B}; from then on, while two players are non-folded,
\* check_betting_complete is false and the phase stays whenever it runs
\* before every other player who can act has acted since the raise and
\* matched the bet.
StaysOpen(g) ==
  /\ ~check_betting_complete(g)
  /\ advance_action(g).hand_state = g.hand_state

C9_RaiseReopensRound ==
  /\ \A req \in {r \in Requests : r[2] = "raise" /\ Outcome(r).ok} :
       LET B == req[1]
           g == Outcome(req).mid
       IN /\ g.current_bet = current_bet + req[3]
          /\ g.players[B].bet = g.current_bet
          /\ g.players_acted = {B}
          /\ (Cardinality(NonFolded(g)) >= 2 /\ CanAct(g) \ {B} # {})
               => StaysOpen(g)
  /\ since_raise.raiser # << >> =>
       LET B == since_raise.raiser[1]
       IN /\ since_raise.acted = {} =>
               /\ players_acted = {B}
               /\ B \in Seated => players[B].bet = current_bet
          /\ \A req \in {r \in Requests : r[2] # "raise" /\ Outcome(r).ok} :
               LET g == Outcome(req).mid
                   responded == since_raise.acted \cup {req[1]}
                   owing == {x \in CanAct(g) \ {B} :
                               x \notin responded
                                 \/ g.players[x].bet # g.current_bet}
               IN (Cardinality(NonFolded(g)) >= 2 /\ owing # {})
                    => StaysOpen(g)

\* C9 witness: after a raise one other player has responded, another who
\* can act has not, and the hand is still in the phase of the raise.
C9_Witness ==
  /\ Betting
  /\ since_raise.raiser # << >>
  /\ since_raise.acted # {}
  /\ CanAct(Game) \ (since_raise.acted \cup Range(since_raise.raiser)) # {}

\* C10: player_call of a seated player pays min(current_bet - own bet,
\* stack): the stack falls, and the bet and the pot rise, by exactly that;
\* when more is owed than the stack holds the stack becomes 0 and the
\* player is all-in.
C10_CallPaysCappedAmount ==
  \A pid \in Seated :
    LET g == call_pay(Game, pid)
        owed == current_bet - players[pid].bet
        paid == Min(owed, players[pid].chips)
    IN /\ player_call(Game, pid).ok
       /\ g.players[pid].chips = players[pid].chips - paid
       /\ g.players[pid].bet = players[pid].bet + paid
       /\ g.pot = pot + paid
       /\ owed > players[pid].chips =>
            g.players[pid].chips = 0 /\ g.players[pid].all_in
       /\ \A q \in Seated \ {pid} : g.players[q] = players[q]

\* C10 witness: the actor owes more than a stack that is not empty, and the
\* call puts in the whole stack and sets the all-in flag.
C10_Witness ==
  \E pid \in Actor :
    /\ players[pid].chips > 0
    /\ current_bet - players[pid].bet > players[pid].chips
    /\ call_pay(Game, pid).pot = pot + players[pid].chips
    /\ call_pay(Game, pid).players[pid].all_in

\* The hand a start request of the creator, or the auto-deal task on a
\* playing table, would begin on the current table.
NewHand == start_hand([Game EXCEPT !.state = "playing"], hands + 1)

\* The player on seat i (counted from 0) of the current seating order.
SeatOf(i) == player_order[(i % Len(player_order)) + 1]

\* C11: after a successful start_hand with n >= 2 seated players and dealer
\* seat d, seat (d+1) mod n has posted min(small blind, stack) and seat
\* (d+2) mod n min(big blind, stack) into the pot (with sufficient stacks
\* the pot is small blind + big blind), current_bet is the big blind,
\* last_raiser is the big-blind seat, both blinds are in the acted-set and
\* the first actor is seat (d+3) mod n.
C11_BlindsAndFirstActor ==
  Len(player_order) >= 2 =>
    LET n == Len(player_order)
        d == dealer_position
        sb == SeatOf(d + 1)
        bb == SeatOf(d + 2)
        sb_paid == IF SmallBlind < players[sb].chips
                   THEN SmallBlind ELSE players[sb].chips
        bb_paid == IF BigBlind < players[bb].chips
                   THEN BigBlind ELSE players[bb].chips
        g == NewHand.g
    IN /\ NewHand.ok
       /\ g.hand_state = "preflop"
       /\ g.players[sb].bet = sb_paid
       /\ g.players[sb].chips = players[sb].chips - sb_paid
       /\ g.players[bb].bet = bb_paid
       /\ g.players[bb].chips = players[bb].chips - bb_paid
       /\ \A p \in Seated \ {sb, bb} :
            g.players[p].bet = 0 /\ g.players[p].chips = players[p].chips
       /\ g.pot = sb_paid + bb_paid
       /\ (players[sb].chips >= SmallBlind /\ players[bb].chips >= BigBlind)
            => g.pot = SmallBlind + BigBlind
       /\ g.current_bet = BigBlind
       /\ g.last_raiser_index = <<(d + 2) % n>>
       /\ g.players_acted = {sb, bb}
       /\ g.current_player_index = (d + 3) % n

\* C11 witness: three players, a hand just begun by start_hand: the blinds
\* are in the pot in full and the first actor is the seat after the big
\* blind.
C11_Witness ==
  /\ Len(player_order) = 3
  /\ hand_state = "preflop"
  /\ pot = SmallBlind + BigBlind
  /\ players_acted = {SeatOf(dealer_position + 1), SeatOf(dealer_position + 2)}
  /\ last_raiser_index = <<(dealer_position + 2) % 3>>
  /\ current_player_index = (dealer_position + 3) % 3

\* C12: a blind seat whose stack (not empty) is smaller than its blind posts
\* the whole stack at post_blinds, the stack becoming 0 and the bet and the
\* pot growing by it, and is all-in: the all-in flag is set and the player
\* is not among the players who can act.
C12_ShortBlindIsAllIn ==
  Len(player_order) >= 2 =>
    LET sb == SeatOf(dealer_position + 1)
        bb == SeatOf(dealer_position + 2)
        g == NewHand.g
        short == {p \in {sb} : players[p].chips < SmallBlind}
                   \cup {p \in {bb} : players[p].chips < BigBlind}
    IN \A p \in {q \in short : players[q].chips > 0} :
         /\ g.players[p].chips = 0
         /\ g.players[p].bet = players[p].chips
         /\ g.pot >= players[p].chips
         /\ g.players[p].all_in
         /\ p \notin CanAct(g)

\* C13: a fold that leaves exactly one non-folded player ends the hand
\* within the same action: the phase is showdown, the stack of the one
\* player left has grown by the whole pot (and no other stack has changed),
\* no community card was dealt, and the dealer seat has advanced by one,
\* wrapping around the seating order.
C13_FoldToOneEndsHand ==
  \A req \in {r \in Requests : r[2] = "fold" /\ Outcome(r).ok} :
    LET m == Outcome(req).mid
        g == Outcome(req).g
    IN Cardinality(NonFolded(m)) = 1 =>
         /\ g.hand_state = "showdown"
         /\ \A p \in Seated :
              g.players[p].chips =
                players[p].chips + (IF p \in NonFolded(m) THEN pot ELSE 0)
         /\ g.community_cards = community_cards
         /\ g.deck = deck
         /\ g.dealer_position = (dealer_position + 1) % Len(player_order)

\* C13 witness: a hand ended by a fold before the river: one player is left
\* non-folded and was awarded the pot.
C13_Witness ==
  /\ hand_state = "showdown"
  /\ Cardinality(NonFolded(Game)) = 1
  /\ Cardinality(Seated) >= 2
  /\ Len(community_cards) < 5
  /\ pot > 0
  /\ awarded = pot

\* floor(x / k) for k > 0, from its defining inequality.
FloorDiv(x, k) ==
  LET bound == IF x < 0 THEN 0 - x ELSE x
  IN CHOOSE q \in (0 - bound)..bound : k * q <= x /\ x < k * (q + 1)

\* C14: when end_hand runs with k >= 2 non-folded players each of them, and
\* no folded player, receives floor(pot / k) chips and the remainder goes to
\* nobody; with exactly one non-folded player that player receives the
\* whole pot.
C14_SplitPot ==
  \A g \in {t \in MidTables \cup {Game} : NonFolded(t) # {}} :
    LET k == Cardinality(NonFolded(g))
        share == IF k = 1 THEN g.pot ELSE FloorDiv(g.pot, k)
        e == end_hand(g)
    IN /\ \A p \in NonFolded(g) :
            e.players[p].chips = g.players[p].chips + share
       /\ \A p \in DOMAIN g.players \ NonFolded(g) :
            e.players[p].chips = g.players[p].chips
       /\ ChipSum(e) - ChipSum(g) = k * share
       /\ k >= 2 => g.pot - k * share \in 0..(k - 1)

\* C14 witness: a showdown among two or more non-folded players whose pot
\* did not divide evenly: each got the floor of the share and the remainder
\* is with nobody.
C14_Witness ==
  /\ hand_state = "showdown"
  /\ Cardinality(NonFolded(Game)) >= 2
  /\ awarded = Cardinality(NonFolded(Game))
                  * FloorDiv(pot, Cardinality(NonFolded(Game)))
  /\ awarded # pot

\* A step of a schedule_next_hand task: one task leaves one of its sleeps.
TaskStep ==
  \/ tasks'.sleep5 < tasks.sleep5
  \/ tasks'.sleep2 < tasks.sleep2

\* C15: an auto-deal task that wakes, from its first or its second delay,
\* on a table that is not playing starts no hand: it deals no card, posts no
\* blind, leaves the phase and the whole table as they are.
C15_TaskAbortsWhenNotPlaying ==
  [][(TaskStep /\ state # "playing")
       => (UNCHANGED gameVars /\ hands' = hands)]_vars

\* C15 witness: the table was paused between the two delays of a task, which
\* sleeps its second delay on a table two players sit at.
C15_Witness ==
  /\ state = "paused"
  /\ tasks.sleep2 > 0
  /\ hand_state = "none"
  /\ Len(player_order) >= 2

\* C16: an auto-deal task never applies to a table that has moved on: a
\* task that wakes while a hand is in preflop, flop, turn or river (a hand
\* that began after the task was scheduled at a showdown) neither sets the
\* phase to none nor runs start_hand, and at most one task is pending at any
\* time.
C16_NoStrayTask ==
  [][/\ PendingIn(tasks') <= 1
     /\ (TaskStep /\ Betting) => (hand_state' = hand_state /\ hands' = hands)
    ]_vars

\* The seats of table g after the dealer, in seating order and wrapping,
\* whose player is neither folded nor all-in: offset j stands for seat
\* (dealer + 1 + j) mod n.
OffsetsAbleToAct(g) ==
  LET n == Len(g.player_order)
  IN {j \in 0..(n - 1) :
        g.player_order[((g.dealer_position + 1 + j) % n) + 1] \in CanAct(g)}

\* The accepted requests that complete the betting round of a phase of
\* the set phases.
Completing(phases) ==
  {r \in Requests :
     /\ Outcome(r).ok
     /\ hand_state \in phases
     /\ Cardinality(NonFolded(Outcome(r).mid)) >= 2
     /\ check_betting_complete(Outcome(r).mid)}

\* C17: when a betting round completes in preflop, flop or turn, the table
\* it leaves has every bet 0, current_bet 0, last_raiser null, the
\* acted-set empty, 3, 4 or 5 community cards for flop, turn or river, and
\* as current actor the first seat after the dealer that is neither folded
\* nor all-in; when the river round completes end_hand runs and no card is
\* dealt.
C17_NextRound ==
  /\ \A req \in Completing({"preflop", "flop", "turn"}) :
       LET g == Outcome(req).g
           n == Len(g.player_order)
       IN /\ g.hand_state = (CASE hand_state = "preflop" -> "flop"
                                [] hand_state = "flop" -> "turn"
                                [] hand_state = "turn" -> "river")
          /\ \A p \in DOMAIN g.players : g.players[p].bet = 0
          /\ g.current_bet = 0
          /\ g.last_raiser_index = << >>
          /\ g.players_acted = {}
          /\ Len(g.community_cards) = (CASE g.hand_state = "flop" -> 3
                                         [] g.hand_state = "turn" -> 4
                                         [] g.hand_state = "river" -> 5)
          /\ OffsetsAbleToAct(g) # {}
          /\ \E j \in OffsetsAbleToAct(g) :
               /\ \A i \in OffsetsAbleToAct(g) : j <= i
               /\ g.current_player_index = (g.dealer_position + 1 + j) % n
  /\ \A req \in Completing({"river"}) :
       /\ Outcome(req).g.hand_state = "showdown"
       /\ Outcome(req).g.community_cards = community_cards
       /\ Outcome(req).g.deck = deck

\* The numbers of cards the engine asks get_cards for.
DealSizes == {1, 2, 3}

\* Hole cards, community cards and deck hold each card once: together they
\* are as many cards as places.
CardsApart ==
  LET holes == UNION {Range(players[p].hand) : p \in Seated}
      places == Len(deck) + Len(community_cards)
                  + SumOver([p \in Seated |-> Len(players[p].hand)], Seated)
  IN Cardinality(Range(deck) \cup Range(community_cards) \cup holes) = places

\* get_cards(n) on the current deck: the first n cards, the deck cut by
\* them; or no card and the deck as it was when fewer than n remain.
GetCardsRule ==
  \A n \in DealSizes :
    LET r == get_cards(Game, n)
    IN IF n <= Len(deck)
       THEN /\ r.cards = [i \in 1..n |-> deck[i]]
            /\ r.g.deck = [i \in 1..(Len(deck) - n) |-> deck[i + n]]
       ELSE /\ r.cards = << >>
            /\ r.g = Game

\* The deck is what is left of the shuffle of this hand (hand h is shuffled
\* with seed h) after a number of cards went from its top, and the cards in
\* the hole and on the board are among those that went.
DeckIsRestOfShuffle ==
  hands > 0 =>
    LET shuffled == ShuffledDecks[hands]
        k == Len(shuffled) - Len(deck)
    IN /\ k >= 0
       /\ deck = [i \in 1..Len(deck) |-> shuffled[i + k]]
       /\ Range(community_cards)
            \cup UNION {Range(players[p].hand) : p \in Seated}
              \subseteq {shuffled[i] : i \in 1..k}

\* C18: within one hand no card is in two places: hole cards, community
\* cards and deck are pairwise disjoint and without duplicate; a card dealt
\* is out of the deck and not back in it before the next shuffle;
\* get_cards(n) returns the first n cards of the deck, or none, leaving the
\* deck unchanged, when fewer than n remain.
C18_CardsInOnePlace ==
  /\ CardsApart
  /\ DeckIsRestOfShuffle
  /\ GetCardsRule

\* C18 witness: three players on the river: two hole cards each, five
\* community cards, the rest of the pack in the deck.
C18_Witness ==
  /\ hand_state = "river"
  /\ Cardinality(Seated) = 3
  /\ \A p \in Seated : Len(players[p].hand) = 2
  /\ Len(community_cards) = 5
  /\ Len(deck) = NumSuits * NumRanks - 5 - 2 * 3
  /\ CardsApart

\* C19: the pot of a hand is awarded at most once.  Until the next
\* successful start_hand end_hand runs at most one time: nothing is awarded
\* while the hand is in a betting phase, and what was awarded is no more
\* than the pot of the hand; with the phase showdown or none no request sent
\* to handle_player_action is accepted or changes a stack, the pot, the
\* dealer seat or anything else of the table.
C19_PotAwardedOnce ==
  /\ Betting => awarded = 0
  /\ awarded # 0 => awarded <= pot
  /\ ~Betting =>
       \A req \in Requests :
         /\ ~Outcome(req).ok
         /\ Outcome(req).g = Game

\* C19 witness: a hand was paid out and the phase is none again, a task
\* waiting to deal the next hand, with two players seated.
C19_Witness ==
  /\ hand_state = "none"
  /\ hands > 0
  /\ awarded > 0
  /\ tasks.sleep2 > 0
  /\ Cardinality(Seated) >= 2

\* C20: in the betting phases the all-in flag agrees with the stack: a
\* seated player that has not folded and has no chips left is flagged
\* all-in, and a player flagged all-in has no chips.
C20_AllInMeansNoChips ==
  Betting =>
    \A p \in Seated :
      /\ (~players[p].folded /\ players[p].chips = 0) => players[p].all_in
      /\ players[p].all_in => players[p].chips = 0

\* ----------------------------------------------------------------- liveness
\* The current actor sends a fold or a call that the table accepts.
ActorFoldsOrCalls ==
  \E sid \in Sids, action \in {"fold", "call"} :
    handle_player_action(sid, action, 0)

\* The table with the scheduling the program runs under: a sleeping
\* schedule_next_hand task wakes (asyncio.sleep returns), and the player
\* whose turn it is does not wait for ever before folding or calling.
LiveSpec ==
  /\ Spec
  /\ WF_vars(ActorFoldsOrCalls)
  /\ WF_vars(task_wake_1)
  /\ WF_vars(task_wake_2)

\* C21: every hand terminates.  While the seating stays as it is, the
\* table stays in playing and whoever is the current actor sends a fold or
\* a call, the phase reaches showdown after finitely many actions.  The
\* hand can only get there if it is never stuck: in every state of a
\* betting phase with the table playing there is a seated player whose fold
\* or call the table accepts and acts on.
C21_EveryHandTerminates ==
  (Betting /\ state = "playing") =>
    \E sid \in Seated, action \in {"fold", "call"} :
      /\ Outcome(<<sid, action, 0>>).ok
      /\ Outcome(<<sid, action, 0>>).g # Game

====
